---------------------------- MODULE Spec2Model ----------------------------
(***************************************************************************)
(* Connection lifecycle of ramrod::network_communication.                  *)
(*                                                                         *)
(* One session object is modelled.  `role` says which class it is an       *)
(* instance of: the client of src/unnamed/part_003 (second translation     *)
(* unit, lines 342-905) or the server of src/unnamed/part_000.  The fields *)
(* of both classes have the same names and are kept in the same variables. *)
(*                                                                         *)
(* Threads: the application thread issues the public calls; every          *)
(* std::thread(...).detach() creates a background task.  A connect attempt *)
(* chain (first attempt, backoff sleeps, retries) is one element of the    *)
(* bag `task`, whichever thread currently runs it.                         *)
(***************************************************************************)
EXTENDS Integers, Sequences, FiniteSets, Bags, TLC

\* ------------------------------- bounds ---------------------------------
MaxIntents == 1          \* largest configured max_intents_
MaxTasks   == 2          \* attempt chains that can coexist in the model
MaxCand    == 2          \* candidates returned by one getaddrinfo()
MaxFds     == 2          \* descriptors the process may hold open at once
MaxSize    == 2          \* largest number of bytes one transfer call asks for
MaxIOTasks == 1          \* chains in flight while transfers are explored

\* --------------------------- program constants --------------------------
SOCK_STREAM == "SOCK_STREAM"
SOCK_DGRAM  == "SOCK_DGRAM"
DefaultPort == 1313

Roles    == {"client", "server"}
\* the (ip, port, socket_type) triples the application passes to connect()
Targets  == {<<"10.0.0.1", DefaultPort, SOCK_STREAM>>,
             <<"10.0.0.2", DefaultPort, SOCK_DGRAM>>,
             <<"10.0.0.3", 0, SOCK_STREAM>>}
Fds      == 3..(2 + MaxFds)
Intents  == 0..MaxIntents

VARIABLES
  role,                   \* "client" | "server"
  ip_, port_, is_tcp_,    \* recorded target
  socket_fd_,             \* -1 or a descriptor number
  connected_fd_,          \* server only: accepted session descriptor
  current_intent_, max_intents_, max_queue_, reconnection_time_,
  terminate_concurrent_, terminate_receive_, terminate_send_,
  connected_, connecting_,
  results_,               \* server only: "null" | "live" | "freed"
  openFds,                \* descriptors currently open in the process
  task,                   \* bag of the attempt chains in flight
  crashed,                \* the process was aborted by undefined behaviour
  xfer,                   \* the transfer call in progress, or its result
  after_disconnect,       \* the last public call or task step was disconnect()
  was_connected,          \* is_connected() has been true at some time
  hs,                     \* the datagram handshake of the server of server.cpp
  dis,                    \* one disconnect() call, statement by statement
  blk                     \* the blocking client: its connect() call

\* the program's state, and the state with the two observations added
pvars == <<role, ip_, port_, is_tcp_, socket_fd_, connected_fd_, current_intent_,
           max_intents_, max_queue_, reconnection_time_, terminate_concurrent_, terminate_receive_,
           terminate_send_, connected_, connecting_, results_, openFds,
           task, crashed>>
\* the units that are studied on their own, at rest in the other
\* specifications
auxVars == <<hs, dis, blk>>
vars  == <<pvars, xfer, after_disconnect, was_connected, auxVars>>

targetVars == <<ip_, port_, is_tcp_>>
fdVars     == <<socket_fd_, connected_fd_, openFds, results_>>
flagVars   == <<terminate_concurrent_, terminate_receive_, terminate_send_,
                connected_, connecting_>>
fixedVars  == <<role, max_intents_, max_queue_, reconnection_time_, crashed>>

\* ------------------------------- helpers --------------------------------
Min(S) == CHOOSE x \in S : \A y \in S : x <= y

\* the attempt and sleep counts of a chain saturate above every value the
\* retry policy allows
CountCap == MaxIntents + 2
Bump(n)  == IF n < CountCap THEN n + 1 ELSE n

\* One chain: where its thread stands, whether disconnect() ran while the
\* chain was in flight ("awake": outside, "asleep": inside its backoff sleep),
\* the attempts it has made and the backoff sleeps it has finished
\* wait: the chain runs inline in connect() / reconnect(), whose caller gets
\* the return value once the chain has ended
\* sock, sent: the kind of socket its successful attempt opened ("none"
\* before) and the identifier payloads it has sent (client)
NewChain == [pc |-> "spawned", cancel |-> "no", tries |-> 0, naps |-> 0,
             wait |-> FALSE, sock |-> "none", sent |-> 0]
InlineChain == [NewChain EXCEPT !.wait = TRUE]

Chains     == BagToSet(task)

\* no transfer call is in progress and no result waits to be read
NoXfer == [pc |-> "idle"]
\* no datagram handshake is under study
NoHandshake == [pc |-> "off"]
\* no disconnect() call is followed statement by statement
NoDisconnect == [pc |-> "off"]
\* the session is not an instance of the blocking client
NoBlocking == [pc |-> "off"]
AliveCount == BagCardinality(task)

\* std::thread(&concurrent_connector, ...).detach(), or the same function
\* called inline: the chain runs the same steps on whichever thread
Spawn(tk) == tk (+) SetToBag({NewChain})
\* if(concurrent) std::thread(...).detach(); else concurrent_connector(true);
Start(tk, concurrent) ==
  IF concurrent THEN Spawn(tk) ELSE tk (+) SetToBag({InlineChain})

\* the chain c moves to program point pc / returns
Put(c, d)    == (task (-) SetToBag({c})) (+) SetToBag({d})
Move(c, pc)  == Put(c, [c EXCEPT !.pc = pc])
\* ... after one more attempt / one more backoff sleep
Tried(c, pc) == Put(c, [c EXCEPT !.pc = pc, !.tries = Bump(@)])
Slept(c, pc) == Put(c, [c EXCEPT !.pc = pc, !.naps = Bump(@)])
Finish(c)   == task (-) SetToBag({c})

\* a chain that is in flight when disconnect() runs has been cancelled by it
Mark(c) == [c EXCEPT !.cancel = IF @ = "asleep" \/ c.pc = "sleep"
                                THEN "asleep" ELSE "awake"]
RECURSIVE MarkFrom(_, _)
MarkFrom(tk, S) ==
  IF S = {} THEN EmptyBag
  ELSE LET c == CHOOSE x \in S : TRUE
       IN  MarkFrom(tk, S \ {c}) (+) [x \in {Mark(c)} |-> tk[c]]
MarkDisc(tk) == MarkFrom(tk, BagToSet(tk))

\* outcomes of one candidate of the getaddrinfo() list
CandOutcomes == {"nosock", "optfail", "rolefail", "ok"}
CandLists    == UNION {[1..n -> CandOutcomes] : n \in 1..MaxCand}

\* for(pointer = results; pointer != nullptr; pointer = pointer->ai_next){...}
\* fd is the value of socket_fd_, open the open descriptors of the process
RECURSIVE candidate_loop(_, _, _, _)
candidate_loop(cands, i, fd, open) ==
  IF i > Len(cands) THEN [fd |-> fd, open |-> open, end |-> "none"]
  ELSE IF cands[i] = "nosock" \/ Fds \ open = {}
       THEN candidate_loop(cands, i + 1, -1, open)          \* socket() == -1
       ELSE LET s == Min(Fds \ open) IN
            CASE cands[i] = "optfail"  -> [fd |-> s, open |-> open, end |-> "optfail"]
              [] cands[i] = "rolefail" -> candidate_loop(cands, i + 1, s, open)
              [] OTHER                 -> [fd |-> s, open |-> open \cup {s}, end |-> "ok"]

\* ----------------------------- construction ----------------------------
\* a client whose constructor set a backoff of one second
client_client_short_backoff ==
  [ip_ |-> "", port_ |-> 1313, socket_fd_ |-> -1, connected_fd_ |-> -1,
   max_queue_ |-> 10, current_intent_ |-> 0, max_intents_ |-> 10,
   terminate_concurrent_ |-> FALSE, terminate_receive_ |-> FALSE,
   terminate_send_ |-> FALSE, connected_ |-> FALSE, connecting_ |-> FALSE,
   is_tcp_ |-> FALSE, results_ |-> "null", reconnection_time_ |-> 1000]
\* client::client(): the member initialisers (the members that the model
\* follows; no descriptor is opened)
client_client ==
  [ip_ |-> "", port_ |-> 1313, socket_fd_ |-> -1, connected_fd_ |-> -1,
   max_queue_ |-> 10, current_intent_ |-> 0, max_intents_ |-> 10,
   terminate_concurrent_ |-> FALSE, terminate_receive_ |-> FALSE,
   terminate_send_ |-> FALSE, connected_ |-> FALSE, connecting_ |-> FALSE,
   is_tcp_ |-> FALSE, results_ |-> "null", reconnection_time_ |-> 5000]
\* server::server(): the member initialisers
server_server ==
  [ip_ |-> "", port_ |-> 1313, socket_fd_ |-> -1, connected_fd_ |-> -1,
   max_queue_ |-> 10, current_intent_ |-> 0, max_intents_ |-> 10,
   terminate_concurrent_ |-> FALSE, terminate_receive_ |-> FALSE,
   terminate_send_ |-> FALSE, connected_ |-> FALSE, connecting_ |-> FALSE,
   is_tcp_ |-> FALSE, results_ |-> "null", reconnection_time_ |-> 5000]
constructed(r) == IF r = "server" THEN server_server ELSE client_client

\* --------------------------------- Init ---------------------------------
Init ==
  /\ role \in Roles
  /\ ip_ = ""
  /\ port_ = DefaultPort
  /\ is_tcp_ = FALSE
  /\ socket_fd_ = -1
  /\ connected_fd_ = -1
  /\ current_intent_ = 0
  /\ max_intents_ \in Intents      \* max_reconnection_intents(n) after construction
  /\ max_queue_ = client_client.max_queue_
  /\ reconnection_time_ = client_client.reconnection_time_
  /\ terminate_concurrent_ = FALSE
  /\ terminate_receive_ = FALSE
  /\ terminate_send_ = FALSE
  /\ connected_ = FALSE
  /\ connecting_ = FALSE
  /\ results_ = "null"
  /\ openFds = {}
  /\ task = EmptyBag
  /\ crashed = FALSE
  /\ xfer = NoXfer
  /\ after_disconnect = FALSE
  /\ was_connected = FALSE
  /\ hs = NoHandshake
  /\ dis = NoDisconnect
  /\ blk = NoBlocking

\* what an observer of the public interface notes about a step
Observe(disconnects) ==
  /\ after_disconnect' = disconnects
  /\ was_connected' = (was_connected \/ connected_')

\* ================================ client ================================
\* bool client::close(): what it leaves in openFds and connected_
client_close_open      == IF socket_fd_ < 0 THEN openFds ELSE openFds \ {socket_fd_}
client_close_connected == IF socket_fd_ < 0 THEN connected_ ELSE FALSE

\* bool client::disconnect()
client_disconnect ==
  /\ role = "client" /\ ~crashed
  /\ connecting_' = FALSE
  /\ terminate_send_' = TRUE
  /\ terminate_receive_' = TRUE
  /\ terminate_concurrent_' = TRUE
  /\ socket_fd_' = -1
  /\ openFds' = client_close_open
  /\ connected_' = client_close_connected
  /\ task' = MarkDisc(task)
  /\ UNCHANGED <<targetVars, connected_fd_, results_, current_intent_,
                 fixedVars>>
  /\ UNCHANGED xfer
  /\ UNCHANGED auxVars
  /\ Observe(TRUE)

\* the value client::connect returns: false while connecting_ is set
client_connect_result == ~connecting_

\* bool client::connect(ip, port, socket_type, concurrent)
client_connect(ip, port, socket_type, concurrent) ==
  /\ role = "client" /\ ~crashed
  /\ IF ~client_connect_result
     THEN UNCHANGED pvars
     ELSE /\ AliveCount < MaxTasks
          /\ IF connected_                      \* if(connected_.load()) disconnect();
             THEN /\ terminate_send_' = TRUE
                  /\ terminate_receive_' = TRUE
                  /\ socket_fd_' = -1
                  /\ openFds' = client_close_open
                  /\ connected_' = client_close_connected
                  /\ task' = Start(MarkDisc(task), concurrent)
             ELSE /\ UNCHANGED <<terminate_send_, terminate_receive_, socket_fd_,
                                 openFds, connected_>>
                  /\ task' = Start(task, concurrent)
          /\ ip_' = ip
          /\ port_' = port
          /\ current_intent_' = 0
          /\ is_tcp_' = (socket_type # SOCK_DGRAM)
          /\ terminate_concurrent_' = FALSE
          /\ UNCHANGED <<connecting_, connected_fd_, results_, fixedVars>>
  /\ UNCHANGED xfer
  /\ UNCHANGED auxVars
  /\ Observe(FALSE)

\* the value client::reconnect returns: false without a recorded target
client_reconnect_result == ~(ip_ = "" \/ port_ <= 0)

\* a reconnect that dials a fixed target instead of the recorded one
client_reconnect_fixed_target(concurrent) ==
  client_connect("10.0.0.1", DefaultPort, SOCK_STREAM, concurrent)

\* bool client::reconnect(concurrent)
client_reconnect(concurrent) ==
  /\ role = "client" /\ ~crashed
  /\ IF ~client_reconnect_result \/ connecting_
     THEN UNCHANGED pvars
     ELSE /\ AliveCount < MaxTasks
          /\ IF connected_
             THEN /\ terminate_send_' = TRUE
                  /\ terminate_receive_' = TRUE
                  /\ socket_fd_' = -1
                  /\ openFds' = client_close_open
                  /\ connected_' = client_close_connected
                  /\ task' = Start(MarkDisc(task), concurrent)
             ELSE /\ UNCHANGED <<terminate_send_, terminate_receive_, socket_fd_,
                                 openFds, connected_>>
                  /\ task' = Start(task, concurrent)
          /\ current_intent_' = 0
          /\ connecting_' = TRUE
          /\ terminate_concurrent_' = FALSE
          /\ UNCHANGED <<targetVars, connected_fd_, results_, fixedVars>>
  /\ UNCHANGED xfer
  /\ UNCHANGED auxVars
  /\ Observe(FALSE)

\* the value a synchronous connect() / reconnect() returns once the chain it
\* ran inline has ended, connected or not:  concurrent_connector(true);
\* return true;
client_inline_result(ended_connected) == TRUE

\* void client::concurrent_connector(wait): entry of one attempt
\*   if(connected_.load()) return;  connecting_.store(true);
client_connector_start(t) ==
  /\ role = "client" /\ ~crashed
  /\ t.pc = "spawned"
  /\ IF connected_
     THEN /\ task' = Finish(t)
          /\ UNCHANGED connecting_
     ELSE /\ task' = Move(t, "attempt")
          /\ connecting_' = TRUE
  /\ UNCHANGED <<targetVars, fdVars, current_intent_, terminate_concurrent_,
                 terminate_receive_, terminate_send_, connected_,
                 fixedVars>>
  /\ UNCHANGED xfer
  /\ UNCHANGED auxVars
  /\ Observe(FALSE)

\* an attempt that counts a failure and sleeps whatever getaddrinfo() gave
client_connector_attempt_counting(t, resolved, cands, sigok) ==
  /\ role = "client" /\ ~crashed
  /\ t.pc = "attempt"
  /\ current_intent_' = Bump(current_intent_)
  /\ task' = Tried(t, "sleep")
  /\ UNCHANGED <<targetVars, fdVars, flagVars, fixedVars>>
  /\ UNCHANGED xfer
  /\ UNCHANGED auxVars
  /\ Observe(FALSE)

\* an attempt that sends the identifier whatever the transport kind
identifier_sends_always(tcp) == 1

\* the identifier payloads a successful attempt sends:
\*   if(!is_tcp_){ char outgoing[11] = "identifier"; ::send(socket_fd_, ...); }
identifier_sends(tcp) == IF tcp THEN 0 ELSE 1
\* the chain c after a successful attempt, about to store connected_
Opened(c) ==
  Put(c, [c EXCEPT !.pc = "set_connected", !.tries = Bump(@),
                   !.sock = IF is_tcp_ THEN "stream" ELSE "dgram",
                   !.sent = @ + identifier_sends(is_tcp_)])

\* getaddrinfo(), the candidate loop, the retry accounting, sigaction() and
\* the identifier of a datagram client
\*   resolved: getaddrinfo() == 0;  cands: what each candidate does;
\*   sigok: sigaction() != -1
client_connector_attempt(t, resolved, cands, sigok) ==
  /\ role = "client" /\ ~crashed
  /\ t.pc = "attempt"
  /\ IF ~resolved
     THEN /\ task' = Finish(t)
          /\ UNCHANGED <<socket_fd_, openFds, current_intent_>>
     ELSE LET r == candidate_loop(cands, 1, socket_fd_, openFds) IN
          /\ socket_fd_' = r.fd
          /\ openFds' = r.open
          /\ CASE r.end = "optfail" ->
                    /\ task' = Finish(t)
                    /\ UNCHANGED current_intent_
               [] r.end = "none" ->
                    /\ current_intent_' = current_intent_ + 1
                    /\ task' = IF current_intent_ + 1 > max_intents_
                               THEN Finish(t)
                               ELSE Tried(t, "sleep")
               [] OTHER ->
                    /\ task' = IF sigok THEN Opened(t) ELSE Finish(t)
                    /\ UNCHANGED current_intent_
  /\ UNCHANGED <<targetVars, connected_fd_, results_, flagVars, fixedVars>>
  /\ UNCHANGED xfer
  /\ UNCHANGED auxVars
  /\ Observe(FALSE)

\* std::this_thread::sleep_for(reconnection_time_) has elapsed:
\*   if(terminate_concurrent_.load()){ connecting_.store(false); return; }
\*   then the next attempt, inline (wait) or in a new detached thread
client_connector_wake(t) ==
  /\ role = "client" /\ ~crashed
  /\ t.pc = "sleep"
  /\ IF terminate_concurrent_
     THEN /\ connecting_' = FALSE
          /\ task' = Finish(t)
     ELSE /\ task' = Slept(t, "spawned")
          /\ UNCHANGED connecting_
  /\ UNCHANGED <<targetVars, fdVars, current_intent_, terminate_concurrent_,
                 terminate_receive_, terminate_send_, connected_,
                 fixedVars>>
  /\ UNCHANGED xfer
  /\ UNCHANGED auxVars
  /\ Observe(FALSE)

\* the five stores that end a successful attempt, one step each
client_connector_finish(t) ==
  /\ role = "client" /\ ~crashed
  /\ \/ /\ t.pc = "set_connected"          \* connected_.store(true);
        /\ connected_' = TRUE
        /\ task' = Move(t, "clear_connecting")
        /\ UNCHANGED <<connecting_, terminate_send_, terminate_receive_,
                       terminate_concurrent_>>
     \/ /\ t.pc = "clear_connecting"       \* connecting_.store(false);
        /\ connecting_' = FALSE
        /\ task' = Move(t, "lower_send")
        /\ UNCHANGED <<connected_, terminate_send_, terminate_receive_,
                       terminate_concurrent_>>
     \/ /\ t.pc = "lower_send"             \* terminate_send_.store(false);
        /\ terminate_send_' = FALSE
        /\ task' = Move(t, "lower_receive")
        /\ UNCHANGED <<connected_, connecting_, terminate_receive_,
                       terminate_concurrent_>>
     \/ /\ t.pc = "lower_receive"          \* terminate_receive_.store(false);
        /\ terminate_receive_' = FALSE
        /\ task' = Move(t, "raise_concurrent")
        /\ UNCHANGED <<connected_, connecting_, terminate_send_,
                       terminate_concurrent_>>
     \/ /\ t.pc = "raise_concurrent"       \* terminate_concurrent_.store(true);
        /\ terminate_concurrent_' = TRUE
        /\ task' = Finish(t)
        /\ UNCHANGED <<connected_, connecting_, terminate_send_,
                       terminate_receive_>>
  /\ UNCHANGED <<targetVars, fdVars, current_intent_, fixedVars>>
  /\ UNCHANGED xfer
  /\ UNCHANGED auxVars
  /\ Observe(FALSE)


\* ================================ server ================================
\* ::close(fd) == -1 exactly when fd is not an open descriptor (EBADF)
\* bool server::close_child(): what it leaves behind
server_child_fd        == IF connected_fd_ >= 0 /\ connected_fd_ \in openFds
                          THEN -1 ELSE connected_fd_
server_child_connected == IF connected_fd_ >= 0 /\ connected_fd_ \notin openFds
                          THEN connected_ ELSE FALSE
server_child_open      == openFds \ {connected_fd_}
\* bool server::close(), run after close_child()
server_close_fd        == IF socket_fd_ \in server_child_open THEN -1 ELSE socket_fd_
server_close_open      == server_child_open \ {socket_fd_}
\* if(results_) ::freeaddrinfo(results_);   (results_ keeps its value)
server_free_results    == IF results_ = "null" THEN "null" ELSE "freed"
server_double_free     == results_ = "freed"

\* bool server::disconnect()
\*   abort: freeing an already freed list aborts the process
server_disconnect_body(abort) ==
  /\ terminate_send_' = TRUE
  /\ terminate_receive_' = TRUE
  /\ terminate_concurrent_' = TRUE
  /\ IF server_double_free /\ abort
     THEN /\ crashed' = TRUE
          /\ UNCHANGED <<fdVars, connected_, task>>
     ELSE /\ results_' = server_free_results
          /\ connected_fd_' = server_child_fd
          /\ connected_' = server_child_connected
          /\ socket_fd_' = server_close_fd
          /\ openFds' = server_close_open
          /\ task' = MarkDisc(task)
          /\ UNCHANGED crashed
  /\ UNCHANGED <<targetVars, connecting_, current_intent_, role,
                 max_intents_, max_queue_, reconnection_time_>>

server_disconnect(abort) ==
  /\ role = "server" /\ ~crashed
  /\ server_disconnect_body(abort)
  /\ UNCHANGED xfer
  /\ UNCHANGED auxVars
  /\ Observe(TRUE)

\* the value server::connect returns: false while connecting_ is set
server_connect_result == ~connecting_

\* bool server::connect(ip, port, socket_type)
server_connect(ip, port, socket_type, abort) ==
  /\ role = "server" /\ ~crashed
  /\ IF ~server_connect_result
     THEN UNCHANGED pvars
     ELSE IF connected_ /\ server_double_free /\ abort
     THEN /\ crashed' = TRUE                    \* inside disconnect()
          /\ terminate_send_' = TRUE
          /\ terminate_receive_' = TRUE
          /\ terminate_concurrent_' = TRUE
          /\ UNCHANGED <<targetVars, fdVars, connected_, connecting_,
                         current_intent_, task, role, max_intents_, max_queue_, reconnection_time_>>
     ELSE /\ AliveCount < MaxTasks
          /\ IF connected_                      \* if(connected_) disconnect();
             THEN /\ terminate_send_' = TRUE
                  /\ terminate_receive_' = TRUE
                  /\ results_' = server_free_results
                  /\ connected_fd_' = server_child_fd
                  /\ connected_' = server_child_connected
                  /\ socket_fd_' = server_close_fd
                  /\ openFds' = server_close_open
                  /\ task' = Spawn(MarkDisc(task))
             ELSE /\ UNCHANGED <<terminate_send_, terminate_receive_, fdVars,
                                 connected_>>
                  /\ task' = Spawn(task)
          /\ ip_' = ip
          /\ port_' = port
          /\ connecting_' = TRUE
          /\ current_intent_' = 0
          /\ is_tcp_' = (socket_type # SOCK_DGRAM)
          /\ terminate_concurrent_' = FALSE
          /\ UNCHANGED fixedVars
  /\ UNCHANGED xfer
  /\ UNCHANGED auxVars
  /\ Observe(FALSE)

\* the value server::reconnect returns
server_reconnect_result == ~(connecting_ \/ ip_ = "" \/ port_ <= 0)

\* bool server::reconnect()
server_reconnect(abort) ==
  /\ role = "server" /\ ~crashed
  /\ IF ~server_reconnect_result
     THEN UNCHANGED pvars
     ELSE IF connected_ /\ server_double_free /\ abort
     THEN /\ crashed' = TRUE                    \* inside disconnect()
          /\ terminate_send_' = TRUE
          /\ terminate_receive_' = TRUE
          /\ terminate_concurrent_' = TRUE
          /\ UNCHANGED <<targetVars, fdVars, connected_, connecting_,
                         current_intent_, task, role, max_intents_, max_queue_, reconnection_time_>>
     ELSE /\ AliveCount < MaxTasks
          /\ IF connected_                      \* if(connected_) disconnect();
             THEN /\ terminate_send_' = TRUE
                  /\ terminate_receive_' = TRUE
                  /\ terminate_concurrent_' = TRUE
                  /\ results_' = server_free_results
                  /\ connected_fd_' = server_child_fd
                  /\ connected_' = server_child_connected
                  /\ socket_fd_' = server_close_fd
                  /\ openFds' = server_close_open
                  /\ task' = Spawn(MarkDisc(task))
             ELSE /\ UNCHANGED <<terminate_send_, terminate_receive_,
                                 terminate_concurrent_, fdVars, connected_>>
                  /\ task' = Spawn(task)
          /\ connecting_' = TRUE
          /\ current_intent_' = 0
          /\ UNCHANGED <<targetVars, fixedVars>>
  /\ UNCHANGED xfer
  /\ UNCHANGED auxVars
  /\ Observe(FALSE)

\* void server::concurrent_connector(force): entry of one attempt.
\* force is true for the thread connect()/reconnect() start ("spawned") and
\* false for the thread a retry starts ("respawned")
server_connector_start(t) ==
  /\ role = "server" /\ ~crashed
  /\ t.pc \in {"spawned", "respawned"}
  /\ IF t.pc = "respawned" /\ terminate_concurrent_
     THEN /\ terminate_concurrent_' = FALSE
          /\ task' = Finish(t)
     ELSE /\ task' = IF connected_ THEN Finish(t) ELSE Move(t, "attempt")
          /\ UNCHANGED terminate_concurrent_
  /\ UNCHANGED <<targetVars, fdVars, current_intent_, terminate_receive_,
                 terminate_send_, connected_, connecting_, fixedVars>>
  /\ UNCHANGED xfer
  /\ UNCHANGED auxVars
  /\ Observe(FALSE)

\* getaddrinfo(), the candidate loop (bind), the retry accounting, listen()
\* and sigaction()
\*   abort: the second freeaddrinfo() of the same list aborts the process
server_connector_attempt(t, resolved, cands, listenok, sigok, abort) ==
  /\ role = "server" /\ ~crashed
  /\ t.pc = "attempt"
  /\ IF ~resolved
     THEN /\ task' = Finish(t)
          /\ UNCHANGED <<socket_fd_, openFds, results_, current_intent_, crashed>>
     ELSE LET r == candidate_loop(cands, 1, socket_fd_, openFds) IN
          /\ socket_fd_' = r.fd
          /\ openFds' = r.open
          /\ CASE r.end = "optfail" ->
                    /\ results_' = "live"
                    /\ task' = Finish(t)
                    /\ UNCHANGED <<current_intent_, crashed>>
               [] r.end = "none" ->
                    \* if(is_tcp_) freeaddrinfo(results_); ...
                    \* if(results_) freeaddrinfo(results_); results_ = nullptr;
                    IF is_tcp_ /\ abort
                    THEN /\ crashed' = TRUE
                         /\ results_' = "freed"
                         /\ UNCHANGED <<task, current_intent_>>
                    ELSE /\ results_' = "null"
                         /\ current_intent_' = current_intent_ + 1
                         /\ task' = IF current_intent_ + 1 > max_intents_
                                    THEN Finish(t) ELSE Tried(t, "sleep")
                         /\ UNCHANGED crashed
               [] OTHER ->
                    /\ results_' = IF is_tcp_ THEN "freed" ELSE "live"
                    /\ task' = IF (is_tcp_ /\ ~listenok) \/ ~sigok THEN Finish(t)
                               ELSE IF is_tcp_ THEN Tried(t, "accept_check")
                               ELSE Tried(t, "set_connected")
                    /\ UNCHANGED <<current_intent_, crashed>>
  /\ UNCHANGED <<targetVars, connected_fd_, flagVars, role, max_intents_, max_queue_, reconnection_time_>>
  /\ UNCHANGED xfer
  /\ UNCHANGED auxVars
  /\ Observe(FALSE)

\* the backoff sleep has elapsed:  if(terminate_concurrent_) return;
\* then std::thread(&server::concurrent_connector, this, false).detach()
server_connector_wake(t) ==
  /\ role = "server" /\ ~crashed
  /\ t.pc = "sleep"
  /\ task' = IF terminate_concurrent_ THEN Finish(t) ELSE Slept(t, "respawned")
  /\ UNCHANGED <<targetVars, fdVars, current_intent_, flagVars, fixedVars>>
  /\ UNCHANGED xfer
  /\ UNCHANGED auxVars
  /\ Observe(FALSE)

\* void server::concurrent_connection(): while(!terminate_concurrent_){ accept ... }
\*   ok: a peer is calling and ::accept() returns its descriptor
server_connection(t, ok) ==
  /\ role = "server" /\ ~crashed
  /\ \/ /\ t.pc = "accept_check"
        /\ task' = IF terminate_concurrent_ THEN Finish(t) ELSE Move(t, "accept_block")
        /\ UNCHANGED <<connected_fd_, openFds>>
     \/ /\ t.pc = "accept_block"
        /\ IF ok /\ socket_fd_ \in openFds /\ Fds \ openFds # {}
           THEN /\ connected_fd_' = Min(Fds \ openFds)
                /\ openFds' = openFds \cup {Min(Fds \ openFds)}
                /\ task' = Move(t, "set_connected")
           ELSE /\ connected_fd_' = -1
                /\ task' = Move(t, "accept_check")
                /\ UNCHANGED openFds
  /\ UNCHANGED <<targetVars, socket_fd_, results_, current_intent_, flagVars,
                 fixedVars>>
  /\ UNCHANGED xfer
  /\ UNCHANGED auxVars
  /\ Observe(FALSE)

\* the four stores that end a successful setup (datagram: after sigaction();
\* stream: after accept()), one step each
server_connector_finish(t) ==
  /\ role = "server" /\ ~crashed
  /\ \/ /\ t.pc = "set_connected"                \* connected_ = true;
        /\ connected_' = TRUE
        /\ task' = Move(t, "clear_connecting")
        /\ UNCHANGED <<connecting_, terminate_receive_, terminate_send_>>
     \/ /\ t.pc = "clear_connecting"             \* connecting_ = false;
        /\ connecting_' = FALSE
        /\ task' = Move(t, "lower_receive")
        /\ UNCHANGED <<connected_, terminate_receive_, terminate_send_>>
     \/ /\ t.pc = "lower_receive"                \* terminate_receive_ = false;
        /\ terminate_receive_' = FALSE
        /\ task' = Move(t, "lower_send")
        /\ UNCHANGED <<connected_, connecting_, terminate_send_>>
     \/ /\ t.pc = "lower_send"                   \* terminate_send_ = false;
        /\ terminate_send_' = FALSE
        /\ task' = Finish(t)
        /\ UNCHANGED <<connected_, connecting_, terminate_receive_>>
  /\ UNCHANGED <<targetVars, fdVars, current_intent_, terminate_concurrent_,
                 fixedVars>>
  /\ UNCHANGED xfer
  /\ UNCHANGED auxVars
  /\ Observe(FALSE)

\* =============================== transfers ==============================
\* One transfer call: receive or send, the *_all form or not, the
\* *_concurrently form or not, the size asked for, the bytes moved, the
\* bytes still missing as the loop keeps them (bytes_left), the failures
\* counted, the caller's breaker, the underlying calls made, the
\* last value ::recv / ::send gave (<<>> before the first), the sender of the
\* last datagram ::recvfrom delivered ("none" otherwise), whether the loop
\* was entered (what the *_concurrently forms return), how the call ended,
\* and the value the caller gets: the return value, or *size for the
\* concurrent forms.
Sizes == 0..MaxSize
\* the hosts a datagram may come from: the session's peer, or any other
Senders == {"client", "stranger"}
Results == (-1)..MaxSize
NewXfer(dir, all, conc, size) ==
  [pc |-> "run", dir |-> dir, all |-> all, conc |-> conc, size |-> size,
   total |-> 0, left |-> size, errs |-> 0, breaker |-> FALSE, calls |-> 0, got |-> <<>>,
   from |-> "none", started |-> TRUE, end |-> "", result |-> 0]
\* the call ends: "refused" | "stop" | "zero" | "error" | "value" | "full"
Done(x, end, result) == [x EXCEPT !.pc = "done", !.end = end, !.result = result]
\* one more underlying call has given r
Called(x, r) == [x EXCEPT !.calls = @ + 1, !.got = <<r>>]

\* a precheck that lets a size of 0 through
transfer_refused_unconnected(size) == ~connected_

\* a precheck that does not look at connected_
transfer_refused_empty(size) == size = 0

\* if(!connected_ || size == 0) return 0;   and for the concurrent forms
\* if(!connected_ || *size == 0){ *size = 0; return false; }
transfer_refused(size) == ~connected_ \/ size = 0

\* a transfer call: refused at once, else the loop runs on the calling
\* thread or on a detached one
transfer_call(dir, all, conc, size) ==
  /\ ~crashed /\ xfer.pc = "idle"
  /\ xfer' = IF transfer_refused(size)
             THEN Done([NewXfer(dir, all, conc, size) EXCEPT !.started = FALSE],
                       "refused", 0)
             ELSE NewXfer(dir, all, conc, size)
  /\ UNCHANGED pvars
  /\ UNCHANGED auxVars
  /\ Observe(FALSE)

\* the caller raises the flag its breaker pointer refers to
transfer_break ==
  /\ ~crashed /\ xfer.pc = "run" /\ xfer.all /\ ~xfer.breaker
  /\ xfer' = [xfer EXCEPT !.breaker = TRUE]
  /\ UNCHANGED pvars
  /\ UNCHANGED auxVars
  /\ Observe(FALSE)

\* the caller has read the result
transfer_return ==
  /\ ~crashed /\ xfer.pc = "done"
  /\ xfer' = NoXfer
  /\ UNCHANGED pvars
  /\ UNCHANGED auxVars
  /\ Observe(FALSE)

\* what ::recv / ::send may give for len bytes on descriptor fd: -1 always
\* (EBADF when fd is not open), else also 0 or any part of len
Underlying(fd, len) == IF fd \in openFds THEN (-1)..len ELSE {-1}
\* the bytes one underlying call is asked for: bytes_left, or size
Asked(x) == IF x.all THEN x.left ELSE x.size

\* a loop that returns after its first positive result
Moved_once(x, r) == Done(Called(x, r), IF x.all THEN "full" ELSE "value", r)

\* the record after a positive result r: the *_all forms add it to the total,
\* take it from bytes_left and go on until the size is reached, the others
\* return r
Moved(x, r) ==
  IF ~x.all THEN Done(Called(x, r), "value", r)
  ELSE LET y == [Called(x, r) EXCEPT !.total = @ + r, !.left = @ - r]
       IN  IF y.total < x.size THEN y ELSE Done(y, "full", y.total)

\* a retry loop that gives up one failure too early
Failed_early(x, r, indicator) ==
  IF x.errs + 1 >= max_intents_
  THEN Done([Called(x, r) EXCEPT !.errs = @ + 1], "error", indicator)
  ELSE [Called(x, r) EXCEPT !.errs = @ + 1]

\* the record after a negative result r inside a retry loop:
\*   if(++error_counter > max_intents_) return <indicator>;  sleep; continue;
Failed(x, r, indicator) ==
  IF x.errs + 1 > max_intents_
  THEN Done([Called(x, r) EXCEPT !.errs = @ + 1], "error", indicator)
  ELSE [Called(x, r) EXCEPT !.errs = @ + 1]

\* client::receive, receive_all, send, send_all, concurrent_receive,
\* concurrent_receive_all, concurrent_send, concurrent_send_all: one turn of
\* the loop, r being what ::recv / ::send gives
client_stop(x) ==
  /\ x.all
  /\ \/ x.breaker
     \/ x.conc /\ (IF x.dir = "receive" THEN terminate_receive_
                                          ELSE terminate_send_)
client_transfer_stop == client_stop(xfer)
\* the record x after one turn of the loop in which ::recv / ::send gives r
client_turn(x, r) ==
  IF client_stop(x) THEN Done(x, "stop", x.total)
  ELSE IF r = 0 THEN Done(Called(x, r), "zero", 0)
  ELSE IF r < 0 THEN Failed(x, r, IF x.conc THEN 0 ELSE r)
  ELSE Moved(x, r)
client_transfer(r) ==
  /\ role = "client" /\ ~crashed /\ xfer.pc = "run"
  /\ r \in Underlying(socket_fd_, Asked(xfer))
  /\ xfer' = client_turn(xfer, r)
  /\ UNCHANGED pvars
  /\ UNCHANGED auxVars
  /\ Observe(FALSE)

\* server::receive, receive_all, send, send_all, concurrent_receive,
\* concurrent_receive_all, concurrent_send, concurrent_send_all
server_transfer_fd   == IF is_tcp_ THEN connected_fd_ ELSE socket_fd_
server_stop(x) == x.all /\ (x.breaker \/ (x.conc /\ terminate_send_))
server_transfer_stop == server_stop(xfer)
\* the record x after one turn in which ::recv / ::send gives r
server_turn(x, r) ==
  IF server_stop(x) THEN Done(x, "stop", x.total)
  ELSE IF r = 0 THEN Done(Called(x, r), "zero", 0)
  ELSE IF r > 0 THEN Moved(x, r)
  ELSE IF ~x.all THEN Done(Called(x, r), "value", r)
  ELSE Failed(x, r, -1)
\* who a datagram of r bytes that ::recvfrom delivers may come from: the
\* socket is bound, not connected, so any host can send to it
server_senders(x, r) ==
  IF ~is_tcp_ /\ x.dir = "receive" /\ r > 0 /\ ~server_stop(x)
  THEN Senders ELSE {"none"}
server_transfer(r, from, abort) ==
  /\ role = "server" /\ ~crashed /\ xfer.pc = "run"
  /\ r \in Underlying(server_transfer_fd, Asked(xfer))
  /\ from \in server_senders(xfer, r)
  /\ xfer' = [server_turn(xfer, r) EXCEPT !.from = from]
  /\ IF ~server_transfer_stop /\ r = 0     \* *size = 0; disconnect();
     THEN /\ server_disconnect_body(abort)
          /\ UNCHANGED auxVars
          /\ Observe(TRUE)
     ELSE /\ UNCHANGED pvars
          /\ UNCHANGED auxVars
          /\ Observe(FALSE)

\* ====================== datagram handshake (server) ======================
\* server::concurrent_connector of server.cpp, after bind() of a datagram
\* socket:
\*   char incoming[11];
\*   if(::recvfrom(socket_fd_, incoming, sizeof(incoming), 0, &receiver, &addrlen) <= 0){}
\*   terminate_receive_ = false; terminate_send_ = false; connecting_ = false;
\*   if(::strcmp(incoming, "identifier") != 0) return;
\*   memcpy(client_->ai_addr, &receiver, ...); connected_fd_ = socket_fd_;
\*   connected_ = true;
\* hs: where the thread stands; whether the bytes the stack holds where
\* incoming[] is placed spell the identifier (stale: incoming is not
\* initialised); the value recvfrom gave (n), whether the n bytes it wrote are
\* the first n bytes of the identifier (good) and who sent them (from);
\* whether incoming[] now spells the identifier (match); the peer recorded.
IdLen == 11                       \* sizeof(incoming), sizeof("identifier")
\* the bytes of incoming[] after recvfrom: the n bytes written, then what the
\* stack held before
handshake_buffer(stale, n, good) ==
  IF n <= 0 THEN stale
  ELSE good /\ (n = IdLen \/ stale)

InitHandshake ==
  /\ role = "server"
  /\ ip_ = "10.0.0.2" /\ port_ = DefaultPort /\ is_tcp_ = FALSE
  /\ socket_fd_ = Min(Fds) /\ openFds = {Min(Fds)} /\ connected_fd_ = -1
  /\ current_intent_ \in Intents /\ max_intents_ \in Intents
  /\ max_queue_ = server_server.max_queue_
  /\ reconnection_time_ = server_server.reconnection_time_
  /\ terminate_concurrent_ = FALSE
  /\ terminate_receive_ \in BOOLEAN /\ terminate_send_ = terminate_receive_
  /\ connected_ = FALSE /\ connecting_ = TRUE
  /\ results_ = "live" /\ task = EmptyBag /\ crashed = FALSE
  /\ xfer = NoXfer /\ after_disconnect = FALSE /\ was_connected = FALSE
  /\ hs \in [pc : {"recvfrom"}, stale : BOOLEAN, n : {0}, good : {FALSE},
              from : {"none"}, match : {FALSE}, peer : {"none"}]
  /\ dis = NoDisconnect /\ blk = NoBlocking

\* the blocking ::recvfrom returns n (-1: error) bytes sent by `from`
handshake_receive(n, good, from) ==
  /\ hs.pc = "recvfrom"
  /\ n \in (-1)..IdLen
  /\ good \in (IF n > 0 THEN BOOLEAN ELSE {FALSE})
  /\ from \in (IF n >= 0 THEN Senders ELSE {"none"})
  /\ hs' = [hs EXCEPT !.pc = "strcmp", !.n = n, !.good = good, !.from = from,
                      !.match = handshake_buffer(hs.stale, n, good)]
  /\ UNCHANGED <<pvars, xfer, after_disconnect, was_connected, dis, blk>>

\* the flags are lowered, incoming[] is compared, the peer is recorded
handshake_check ==
  /\ hs.pc = "strcmp"
  /\ terminate_receive_' = FALSE
  /\ terminate_send_' = FALSE
  /\ connecting_' = FALSE
  /\ IF ~hs.match
     THEN /\ hs' = [hs EXCEPT !.pc = "done"]
          /\ UNCHANGED <<connected_fd_, connected_>>
     ELSE /\ hs' = [hs EXCEPT !.pc = "done", !.peer = hs.from]
          /\ connected_fd_' = socket_fd_
          /\ connected_' = TRUE
  /\ UNCHANGED <<role, targetVars, socket_fd_, openFds, results_,
                 current_intent_, max_intents_, max_queue_, reconnection_time_, terminate_concurrent_, task,
                 crashed, xfer, dis, blk>>
  /\ Observe(FALSE)

\* int server::receive(buffer, size, flags) of server.cpp on the datagram
\* session the handshake has connected:
\*   received = ::recvfrom(socket_fd_, buffer, size, flags,
\*                         client_->ai_addr, &from_length);
\*   if(received == 0) disconnect();
\* ::recvfrom stores the sender of the datagram it delivers (n >= 0) in the
\* address it is given, which is the recorded peer; receive_all and the
\* concurrent forms make the same call
datagram_receive(n, from) ==
  /\ hs.pc \in {"done", "session"}
  /\ connected_                          \* if(!connected_ || size == 0) return 0;
  /\ n \in Results
  /\ from \in (IF n >= 0 THEN Senders ELSE {"none"})
  /\ hs' = [hs EXCEPT !.pc = "session", !.peer = IF n >= 0 THEN from ELSE @]
  /\ IF n = 0
     THEN /\ terminate_send_' = TRUE
          /\ terminate_receive_' = TRUE
          /\ terminate_concurrent_' = TRUE
          /\ results_' = "null"
          /\ connected_' = FALSE
          /\ openFds' = openFds \ {socket_fd_}
     ELSE UNCHANGED <<terminate_send_, terminate_receive_, terminate_concurrent_,
                      results_, connected_, openFds>>
  /\ UNCHANGED <<role, targetVars, socket_fd_, connected_fd_, current_intent_,
                 max_intents_, max_queue_, reconnection_time_, connecting_, task,
                 crashed, xfer, dis, blk>>
  /\ Observe(n = 0)

\* ===================== disconnect(), step by step =======================
\* bool client::disconnect(){ connecting_.store(false); terminate_send_.store(true);
\*   terminate_receive_.store(true); terminate_concurrent_.store(true); return close(); }
\* bool server::disconnect(){ terminate_send_ = true; terminate_receive_ = true;
\*   terminate_concurrent_ = true; if(results_) ::freeaddrinfo(results_);
\*   return close_child() & close(); }
\* dis: the statement the call stands before; which operand of `&` the build
\* evaluates first (the order is unspecified); what close_child() and close()
\* returned; whether a ::close of this call has returned -1.
Orders == {"child_first", "close_first"}
\* a descriptor field: -1, an open descriptor, or the number of a closed one
HandleKinds == {"none", "open", "stale"}
handle_fd(kind, fd)   == IF kind = "none" THEN -1 ELSE fd
handle_open(kind, fd) == IF kind = "open" THEN {fd} ELSE {}

InitDisconnect ==
  \E sk \in HandleKinds, ck \in HandleKinds :
    /\ role \in Roles
    /\ ip_ = "10.0.0.1" /\ port_ = DefaultPort /\ is_tcp_ \in BOOLEAN
    /\ (role = "client" \/ ~is_tcp_) => ck = "none"
    /\ socket_fd_ = handle_fd(sk, Min(Fds))
    /\ connected_fd_ = handle_fd(ck, Min(Fds) + 1)
    /\ openFds = handle_open(sk, Min(Fds)) \cup handle_open(ck, Min(Fds) + 1)
    /\ connected_ \in BOOLEAN
    /\ connected_ => IF role = "server" /\ is_tcp_ THEN ck = "open" ELSE sk = "open"
    /\ connecting_ \in BOOLEAN
    /\ connected_ => ~connecting_
    /\ terminate_concurrent_ \in BOOLEAN
    /\ terminate_receive_ \in BOOLEAN /\ terminate_send_ = terminate_receive_
    /\ results_ \in (IF role = "server" THEN {"null", "live"} ELSE {"null"})
    /\ current_intent_ = 0 /\ max_intents_ = MaxIntents
    /\ max_queue_ = client_client.max_queue_
    /\ reconnection_time_ = client_client.reconnection_time_
    /\ task = EmptyBag /\ crashed = FALSE
    /\ xfer = NoXfer /\ after_disconnect = FALSE /\ was_connected = connected_
    /\ hs = NoHandshake /\ blk = NoBlocking
    /\ dis \in [pc : {"raise"}, order : IF role = "server" THEN Orders ELSE {"close"},
                 ret_child : {TRUE}, ret_close : {TRUE}, close_err : {FALSE}]

\* the statement after close_child() / after close() has returned
after_child == IF dis.order = "child_first" THEN "sock_release" ELSE "return"
after_close == IF dis.order = "close_first" THEN "child_release" ELSE "return"
\* the value disconnect() returns
disconnect_result ==
  IF role = "client" THEN dis.ret_close ELSE dis.ret_child /\ dis.ret_close

\* the stores to the flags
disconnect_raise ==
  /\ dis.pc = "raise"
  /\ connecting_' = IF role = "client" THEN FALSE ELSE connecting_
  /\ terminate_send_' = TRUE
  /\ terminate_receive_' = TRUE
  /\ terminate_concurrent_' = TRUE
  /\ dis' = [dis EXCEPT !.pc = IF role = "server" THEN "free" ELSE "sock_release"]
  /\ UNCHANGED <<targetVars, fdVars, connected_, current_intent_, task, fixedVars>>
  /\ UNCHANGED <<xfer, hs, blk>>
  /\ Observe(TRUE)

\* if(results_) ::freeaddrinfo(results_);
disconnect_free ==
  /\ dis.pc = "free"
  /\ results_' = server_free_results
  /\ dis' = [dis EXCEPT !.pc = IF dis.order = "child_first" THEN "child_release"
                                                            ELSE "sock_release"]
  /\ UNCHANGED <<targetVars, socket_fd_, connected_fd_, openFds, flagVars,
                 current_intent_, task, fixedVars>>
  /\ UNCHANGED <<xfer, hs, blk>>
  /\ Observe(TRUE)

\* server::close_child() up to ::close(connected_fd_)
disconnect_release_child ==
  /\ dis.pc = "child_release"
  /\ IF connected_fd_ < 0                 \* return !(connected_ = false);
     THEN /\ connected_' = FALSE
          /\ dis' = [dis EXCEPT !.pc = after_child, !.ret_child = TRUE]
          /\ UNCHANGED openFds
     ELSE IF connected_fd_ \in openFds
     THEN /\ openFds' = openFds \ {connected_fd_}
          /\ dis' = [dis EXCEPT !.pc = "child_forget"]
          /\ UNCHANGED connected_
     ELSE /\ dis' = [dis EXCEPT !.pc = after_child, !.ret_child = FALSE,
                               !.close_err = TRUE]
          /\ UNCHANGED <<openFds, connected_>>
  /\ UNCHANGED <<targetVars, socket_fd_, connected_fd_, results_, current_intent_,
                 terminate_concurrent_, terminate_receive_, terminate_send_,
                 connecting_, task, fixedVars>>
  /\ UNCHANGED <<xfer, hs, blk>>
  /\ Observe(TRUE)

\* client::close() / server::close() up to ::close(socket_fd_): the server
\* returns false when ::close fails, the client goes on
disconnect_release_socket ==
  /\ dis.pc = "sock_release"
  /\ IF socket_fd_ < 0                    \* return true;
     THEN /\ dis' = [dis EXCEPT !.pc = after_close, !.ret_close = TRUE]
          /\ UNCHANGED openFds
     ELSE IF socket_fd_ \in openFds \/ role = "client"
     THEN /\ openFds' = openFds \ {socket_fd_}
          /\ dis' = [dis EXCEPT !.pc = "sock_forget",
                                !.close_err = @ \/ socket_fd_ \notin openFds]
     ELSE /\ dis' = [dis EXCEPT !.pc = after_close, !.ret_close = FALSE,
                               !.close_err = TRUE]
          /\ UNCHANGED openFds
  /\ UNCHANGED <<targetVars, socket_fd_, connected_fd_, results_, current_intent_,
                 flagVars, task, fixedVars>>
  /\ UNCHANGED <<xfer, hs, blk>>
  /\ Observe(TRUE)

\* connected_fd_ = -1;  /  socket_fd_ = -1;
disconnect_forget ==
  /\ dis.pc \in {"child_forget", "sock_forget"}
  /\ IF dis.pc = "child_forget"
     THEN /\ connected_fd_' = -1
          /\ dis' = [dis EXCEPT !.pc = "child_clear"]
          /\ UNCHANGED socket_fd_
     ELSE /\ socket_fd_' = -1
          /\ dis' = IF role = "client"
                    THEN [dis EXCEPT !.pc = "sock_clear"]
                    ELSE [dis EXCEPT !.pc = after_close, !.ret_close = TRUE]
          /\ UNCHANGED connected_fd_
  /\ UNCHANGED <<targetVars, openFds, results_, current_intent_, flagVars, task,
                 fixedVars>>
  /\ UNCHANGED <<xfer, hs, blk>>
  /\ Observe(TRUE)

\* return !(connected_ = false);  /  connected_.store(false); return true;
disconnect_clear ==
  /\ dis.pc \in {"child_clear", "sock_clear"}
  /\ connected_' = FALSE
  /\ dis' = IF dis.pc = "child_clear"
            THEN [dis EXCEPT !.pc = after_child, !.ret_child = TRUE]
            ELSE [dis EXCEPT !.pc = "return", !.ret_close = TRUE]
  /\ UNCHANGED <<targetVars, fdVars, current_intent_, terminate_concurrent_,
                 terminate_receive_, terminate_send_, connecting_, task, fixedVars>>
  /\ UNCHANGED <<xfer, hs, blk>>
  /\ Observe(TRUE)

\* ============================ blocking client ===========================
\* The client of the second translation unit, whose
\* connect(ip, port, socket_type, timeout, connection_intents) runs
\* connector(timeout, connection_intents) on the calling thread; connector
\* calls itself with connection_intents - 1 when no candidate connects.
\* blk: where the call stands; the intents asked for and those left; whether
\* timeout > 0; the attempts made (getaddrinfo calls); whether every attempt
\* so far ended with no candidate connected; whether connect() found the
\* session still connected after its disconnect(); the value returned.
MaxK == 2                         \* largest connection_intents passed
\* enum error_value, and `return errno;` (the ::setsockopt or ::sigaction
\* that failed has set errno)
BlockingResults == {"no_error", "reached_max_intents", "getaddrinfo_error", "errno"}
\* how one attempt goes: getaddrinfo fails; a setsockopt / getsockopt in the
\* candidate loop fails; no candidate connects; a candidate connects and the
\* timeout cannot be restored; ... and sigaction fails; ... and all is well
BlockingOutcomes == {"getaddrinfo", "setsockopt", "none", "restore", "sigaction", "ok"}

InitBlocking ==
  /\ role = "client"
  /\ ip_ = "" /\ port_ = DefaultPort /\ is_tcp_ = FALSE
  /\ socket_fd_ = -1 /\ connected_fd_ = -1 /\ openFds = {}
  /\ connected_ = FALSE /\ connecting_ = FALSE
  /\ terminate_concurrent_ = FALSE /\ terminate_receive_ = FALSE
  /\ terminate_send_ = FALSE
  /\ current_intent_ = 0 /\ max_intents_ = MaxIntents
  \* the two settings are not members of this class; they stay at rest
  /\ max_queue_ = client_client.max_queue_
  /\ reconnection_time_ = client_client.reconnection_time_
  /\ results_ = "null" /\ task = EmptyBag /\ crashed = FALSE
  /\ xfer = NoXfer /\ after_disconnect = FALSE /\ was_connected = FALSE
  /\ hs = NoHandshake /\ dis = NoDisconnect
  /\ blk = [pc |-> "idle", asked |-> 0, k |-> 0, timed |-> FALSE, attempts |-> 0,
            only_none |-> TRUE, kept |-> FALSE, ret |-> "no_error"]

\* int client::close(): connecting_ = false; then, with a socket,
\* shutdown (return errno if it fails), close, socket_fd_ = -1,
\* connected_ = false.   shutok: ::shutdown(socket_fd_, SHUT_RDWR) != -1
blocking_close_done(shutok) == socket_fd_ >= 0 /\ shutok
blocking_close_fd(shutok) ==
  IF blocking_close_done(shutok) THEN -1 ELSE socket_fd_
blocking_close_open(shutok) ==
  IF blocking_close_done(shutok) THEN openFds \ {socket_fd_} ELSE openFds
blocking_close_connected(shutok) ==
  IF blocking_close_done(shutok) THEN FALSE ELSE connected_

\* int client::connect(ip, port, socket_type, timeout, connection_intents), up
\* to its call of connector()
blocking_connect(ip, port, socket_type, timed, k, shutok) ==
  /\ blk.pc \in {"idle", "returned"}
  /\ IF connected_                        \* if(connected_) disconnect();
     THEN /\ connecting_' = FALSE
          /\ socket_fd_' = blocking_close_fd(shutok)
          /\ openFds' = blocking_close_open(shutok)
          /\ connected_' = blocking_close_connected(shutok)
     ELSE UNCHANGED <<connecting_, socket_fd_, openFds, connected_>>
  /\ ip_' = ip
  /\ port_' = port
  /\ is_tcp_' = (socket_type # SOCK_DGRAM)          \* socket_type_ = socket_type;
  /\ blk' = [pc |-> "connector", asked |-> k, k |-> k, timed |-> timed,
             attempts |-> 0, only_none |-> TRUE, kept |-> connected_',
             ret |-> "no_error"]
  /\ UNCHANGED <<connected_fd_, results_, current_intent_, terminate_concurrent_,
                 terminate_receive_, terminate_send_, task, fixedVars>>
  /\ UNCHANGED <<xfer, hs, dis>>
  /\ Observe(FALSE)

\* the call returns value v
Returned(b, v) == [b EXCEPT !.pc = "returned", !.ret = v]
\* one more attempt has been made, with this outcome
Attempted(b, outcome) ==
  [b EXCEPT !.attempts = @ + 1, !.only_none = @ /\ outcome = "none"]
\* what an attempt with no candidate connected does next when timeout > 0:
\* ::setsockopt(socket_fd_, SO_SNDTIMEO) runs on a descriptor that is closed
\* or -1, fails, and the call leaves through error_reached
restore_fails(timed) == timed

\* int client::connector(timeout, connection_intents): one activation
\*   closed: the last candidate's socket was opened and closed again (else
\*   ::socket failed and socket_fd_ is -1)
blocking_connector(outcome, closed) ==
  /\ blk.pc = "connector"
  /\ IF connected_                        \* return error_value::no_error;
     THEN /\ blk' = Returned(blk, "no_error")
          /\ UNCHANGED <<connecting_, connected_, socket_fd_, openFds>>
     ELSE IF blk.k <= 0                    \* connecting_ = false; return reached_max_intents;
     THEN /\ blk' = Returned(blk, "reached_max_intents")
          /\ connecting_' = FALSE
          /\ UNCHANGED <<connected_, socket_fd_, openFds>>
     ELSE
       LET b == Attempted(blk, outcome)
           \* the descriptor ::socket returns; -1 when none is left
           s == IF Fds \ openFds = {} THEN -1 ELSE Min(Fds \ openFds)
       IN
       CASE outcome = "getaddrinfo" ->
              /\ blk' = Returned(b, "getaddrinfo_error")
              /\ connecting_' = FALSE
              /\ UNCHANGED <<connected_, socket_fd_, openFds>>
         [] outcome = "setsockopt" ->          \* ::close(socket_fd_); goto error_reached;
              /\ s # -1
              /\ blk' = Returned(b, "errno")
              /\ socket_fd_' = s
              /\ connected_' = FALSE /\ connecting_' = FALSE
              /\ UNCHANGED openFds
         [] outcome = "none" ->
              /\ socket_fd_' = (IF closed THEN s ELSE -1)
              /\ UNCHANGED openFds
              /\ IF restore_fails(blk.timed)
                 THEN /\ blk' = Returned(b, "errno")
                      /\ connected_' = FALSE /\ connecting_' = FALSE
                 ELSE /\ blk' = [b EXCEPT !.k = @ - 1]   \* return connector(timeout, k - 1);
                      /\ connecting_' = TRUE
                      /\ UNCHANGED connected_
         [] outcome = "restore" ->         \* ::close(socket_fd_); goto error_reached;
              /\ s # -1
              /\ blk.timed
              /\ blk' = Returned(b, "errno")
              /\ socket_fd_' = s
              /\ connected_' = FALSE /\ connecting_' = FALSE
              /\ UNCHANGED openFds
         [] outcome = "sigaction" ->       \* goto error_reached;
              /\ s # -1
              /\ blk' = Returned(b, "errno")
              /\ socket_fd_' = s
              /\ openFds' = openFds \cup {s}
              /\ connected_' = FALSE /\ connecting_' = FALSE
         [] OTHER ->
              /\ s # -1
              /\ blk' = Returned(b, "no_error")
              /\ socket_fd_' = s
              /\ openFds' = openFds \cup {s}
              /\ connected_' = TRUE /\ connecting_' = FALSE
  /\ UNCHANGED <<targetVars, connected_fd_, results_, current_intent_,
                 terminate_concurrent_, terminate_receive_, terminate_send_, task,
                 fixedVars>>
  /\ UNCHANGED <<xfer, hs, dis>>
  /\ Observe(FALSE)

\* =============================== settings ===============================
\* the values the setters are called with
QueueValues  == {-1, 0, 1, 10}
IntentValues == {0, 1, 10}
TimeValues   == {-1, 0, 1000, 5000}
MaxSettingIntent == 2          \* reconnection attempts followed in SpecSettings

\* a session as its constructor leaves it
InitSettings ==
  /\ role \in Roles
  /\ ip_ = constructed(role).ip_
  /\ port_ = constructed(role).port_
  /\ is_tcp_ = constructed(role).is_tcp_
  /\ socket_fd_ = constructed(role).socket_fd_
  /\ connected_fd_ = constructed(role).connected_fd_
  /\ max_queue_ = constructed(role).max_queue_
  /\ current_intent_ = constructed(role).current_intent_
  /\ max_intents_ = constructed(role).max_intents_
  /\ terminate_concurrent_ = constructed(role).terminate_concurrent_
  /\ terminate_receive_ = constructed(role).terminate_receive_
  /\ terminate_send_ = constructed(role).terminate_send_
  /\ connected_ = constructed(role).connected_
  /\ connecting_ = constructed(role).connecting_
  /\ results_ = constructed(role).results_
  /\ reconnection_time_ = constructed(role).reconnection_time_
  /\ openFds = {}
  /\ task = EmptyBag
  /\ crashed = FALSE
  /\ xfer = NoXfer
  /\ after_disconnect = FALSE
  /\ was_connected = FALSE
  /\ hs = NoHandshake
  /\ dis = NoDisconnect
  /\ blk = NoBlocking

\* the value max_queue(new_max_queue) returns:
\*   if(new_max_queue <= 0) return false;  ...  return true;
max_queue_result(new_max_queue) == ~(new_max_queue <= 0)
\* int max_queue(): return max_queue_;
max_queue_get == max_queue_
\* int time_to_reconnect(): return static_cast<int>(reconnection_time_.count());
\* the count is a long; the cast keeps a value an int can hold and wraps a
\* larger one
time_to_reconnect_get ==
  IF reconnection_time_ <= 2147483647 THEN reconnection_time_
  ELSE reconnection_time_ - 2147483647 - 2147483647 - 2

\* a setter that stores whatever it is given
max_queue_unchecked(new_max_queue) ==
  /\ ~crashed
  /\ max_queue_' = new_max_queue
  /\ UNCHANGED <<targetVars, fdVars, flagVars, current_intent_, max_intents_,
                 reconnection_time_, task, role, crashed>>
  /\ UNCHANGED <<xfer, auxVars>>
  /\ Observe(FALSE)

\* bool max_queue(const int new_max_queue)
max_queue(new_max_queue) ==
  /\ ~crashed
  /\ max_queue_' = IF new_max_queue <= 0 THEN max_queue_ ELSE new_max_queue
  /\ UNCHANGED <<targetVars, fdVars, flagVars, current_intent_, max_intents_,
                 reconnection_time_, task, role, crashed>>
  /\ UNCHANGED <<xfer, auxVars>>
  /\ Observe(FALSE)

\* void max_reconnection_intents(const std::uint32_t new_max_intents)
max_reconnection_intents(new_max_intents) ==
  /\ ~crashed
  /\ max_intents_' = new_max_intents
  /\ UNCHANGED <<targetVars, fdVars, flagVars, current_intent_, max_queue_,
                 reconnection_time_, task, role, crashed>>
  /\ UNCHANGED <<xfer, auxVars>>
  /\ Observe(FALSE)

\* void time_to_reconnect(const int waiting_time_in_milliseconds)
time_to_reconnect(waiting_time_in_milliseconds) ==
  /\ ~crashed
  /\ reconnection_time_' = IF waiting_time_in_milliseconds > 0
                           THEN waiting_time_in_milliseconds
                           ELSE reconnection_time_
  /\ UNCHANGED <<targetVars, fdVars, flagVars, current_intent_, max_intents_,
                 max_queue_, task, role, crashed>>
  /\ UNCHANGED <<xfer, auxVars>>
  /\ Observe(FALSE)

\* ================================= next =================================
Next ==
  \/ client_disconnect
  \/ \E tg \in Targets, c \in BOOLEAN : client_connect(tg[1], tg[2], tg[3], c)
  \/ \E c \in BOOLEAN : client_reconnect(c)
  \/ \E t \in Chains : client_connector_start(t)
  \/ \E t \in Chains, r \in BOOLEAN, cl \in CandLists, so \in BOOLEAN :
       client_connector_attempt(t, r, cl, so)
  \/ \E t \in Chains : client_connector_wake(t)
  \/ \E t \in Chains : client_connector_finish(t)
  \/ \E a \in BOOLEAN : server_disconnect(a)
  \/ \E tg \in Targets, a \in BOOLEAN : server_connect(tg[1], tg[2], tg[3], a)
  \/ \E a \in BOOLEAN : server_reconnect(a)
  \/ \E t \in Chains : server_connector_start(t)
  \/ \E t \in Chains, r \in BOOLEAN, cl \in CandLists, lo \in BOOLEAN,
        so \in BOOLEAN, a \in BOOLEAN :
       server_connector_attempt(t, r, cl, lo, so, a)
  \/ \E t \in Chains : server_connector_wake(t)
  \/ \E t \in Chains, ok \in BOOLEAN : server_connection(t, ok)
  \/ \E t \in Chains : server_connector_finish(t)

Spec == Init /\ [][Next]_vars

\* the transfer calls and the threads that run them
Transfers ==
  \/ \E d \in {"receive", "send"}, al \in BOOLEAN, co \in BOOLEAN, n \in Sizes :
       transfer_call(d, al, co, n)
  \/ transfer_break
  \/ transfer_return
  \/ \E r \in Results : client_transfer(r)
  \/ \E r \in Results, f \in Senders \cup {"none"}, a \in BOOLEAN :
       server_transfer(r, f, a)

\* the session with transfers: the connection calls and tasks run as in
\* Next, with at most MaxIOTasks chains in flight
NextIO ==
  \/ Next /\ BagCardinality(task') <= MaxIOTasks
  \/ Transfers

SpecIO == Init /\ [][NextIO]_vars

\* the datagram handshake on its own
NextHandshake ==
  \/ \E n \in (-1)..IdLen, g \in BOOLEAN, f \in Senders \cup {"none"} :
       handshake_receive(n, g, f)
  \/ handshake_check

SpecHandshake == InitHandshake /\ [][NextHandshake]_vars

\* the datagram session from its handshake on
NextPeer ==
  \/ \E n \in (-1)..IdLen, g \in BOOLEAN, f \in Senders \cup {"none"} :
       handshake_receive(n, g, f)
  \/ handshake_check
  \/ \E n \in Results, f \in Senders \cup {"none"} : datagram_receive(n, f)

SpecPeer == InitHandshake /\ [][NextPeer]_vars

\* one disconnect() call on its own
NextDisconnect ==
  \/ disconnect_raise
  \/ disconnect_free
  \/ disconnect_release_child
  \/ disconnect_release_socket
  \/ disconnect_forget
  \/ disconnect_clear

SpecDisconnect == InitDisconnect /\ [][NextDisconnect]_vars

\* the blocking client on its own
NextBlocking ==
  \/ \E tg \in Targets, timed \in BOOLEAN, k \in (-1)..MaxK, so \in BOOLEAN :
       blocking_connect(tg[1], tg[2], tg[3], timed, k, so)
  \/ \E o \in BlockingOutcomes, cl \in BOOLEAN : blocking_connector(o, cl)

SpecBlocking == InitBlocking /\ [][NextBlocking]_vars

\* the session from its construction on: the setters, and the connection
\* calls and tasks of Next with one chain in flight and MaxSettingIntent
\* counted attempts
Setters ==
  \/ \E n \in QueueValues : max_queue(n)
  \/ \E n \in IntentValues : max_reconnection_intents(n)
  \/ \E n \in TimeValues : time_to_reconnect(n)

NextSettings ==
  \/ Next /\ BagCardinality(task') <= MaxIOTasks
          /\ current_intent_' <= MaxSettingIntent
  \/ Setters

SpecSettings == InitSettings /\ [][NextSettings]_vars

\* a session that disconnect() has just left while a background bulk
\* transfer, started when it was Connected, is still in its loop: the
\* flags are raised, the handles closed and reset, no chain is in flight
InitStale ==
  /\ role \in Roles
  /\ \E tg \in {t \in Targets : t[2] > 0} :
       ip_ = tg[1] /\ port_ = tg[2] /\ is_tcp_ = (tg[3] # SOCK_DGRAM)
  /\ socket_fd_ = -1 /\ connected_fd_ = -1 /\ openFds = {}
  /\ current_intent_ = 0 /\ max_intents_ \in Intents
  /\ max_queue_ = constructed(role).max_queue_
  /\ reconnection_time_ = constructed(role).reconnection_time_
  /\ terminate_concurrent_ = TRUE /\ terminate_receive_ = TRUE
  /\ terminate_send_ = TRUE
  /\ connected_ = FALSE /\ connecting_ = FALSE
  /\ results_ = (IF role = "server" THEN "freed" ELSE "null")
  /\ task = EmptyBag /\ crashed = FALSE
  /\ \E d \in {"receive", "send"}, n \in Sizes \ {0} :
       xfer = NewXfer(d, TRUE, TRUE, n)
  /\ after_disconnect = TRUE /\ was_connected = TRUE
  /\ hs = NoHandshake /\ dis = NoDisconnect /\ blk = NoBlocking

\* what follows: the connection calls and tasks of Next with one chain in
\* flight, and the transfer's thread; no new transfer is started
NextStale ==
  \/ Next /\ BagCardinality(task') <= MaxIOTasks
  \/ transfer_break
  \/ transfer_return
  \/ \E r \in Results : client_transfer(r)
  \/ \E r \in Results, f \in Senders \cup {"none"}, a \in BOOLEAN :
       server_transfer(r, f, a)

SpecStale == InitStale /\ [][NextStale]_vars

\* The owning object has been destroyed: ~client() / ~server() have run
\* disconnect() and returned, and the storage of the members is released.
\* The threads the object started were detached and are not joined: they go
\* on.  Two states the destructor can leave: a connect chain just spawned by
\* connect(), or a background transfer in its loop on a session that was
\* Connected.
InitDestroyed ==
  /\ role \in Roles
  /\ \E tg \in Targets :
       ip_ = tg[1] /\ port_ = tg[2] /\ is_tcp_ = (tg[3] # SOCK_DGRAM)
  /\ socket_fd_ = -1 /\ connected_fd_ = -1 /\ openFds = {}
  /\ current_intent_ = 0 /\ max_intents_ \in Intents
  /\ max_queue_ = constructed(role).max_queue_
  /\ reconnection_time_ = constructed(role).reconnection_time_
  /\ terminate_concurrent_ = TRUE /\ terminate_receive_ = TRUE
  /\ terminate_send_ = TRUE
  /\ connected_ = FALSE /\ crashed = FALSE
  /\ \/ /\ task = SetToBag({Mark(NewChain)})
        /\ xfer = NoXfer
        /\ connecting_ = (role = "server")
        /\ results_ = "null"
        /\ was_connected = FALSE
     \/ /\ task = EmptyBag
        /\ port_ > 0
        /\ \E d \in {"receive", "send"}, al \in BOOLEAN, n \in Sizes \ {0} :
             xfer = NewXfer(d, al, TRUE, n)
        /\ connecting_ = FALSE
        /\ results_ = (IF role = "server" THEN "freed" ELSE "null")
        /\ was_connected = TRUE
  /\ after_disconnect = TRUE
  /\ hs = NoHandshake /\ dis = NoDisconnect /\ blk = NoBlocking

\* the application can make no call any more; the detached threads run
NextDestroyed ==
  \/ \E t \in Chains : client_connector_start(t)
  \/ \E t \in Chains, r \in BOOLEAN, cl \in CandLists, so \in BOOLEAN :
       client_connector_attempt(t, r, cl, so)
  \/ \E t \in Chains : client_connector_wake(t)
  \/ \E t \in Chains : client_connector_finish(t)
  \/ \E t \in Chains : server_connector_start(t)
  \/ \E t \in Chains, r \in BOOLEAN, cl \in CandLists, lo \in BOOLEAN,
        so \in BOOLEAN, a \in BOOLEAN :
       server_connector_attempt(t, r, cl, lo, so, a)
  \/ \E t \in Chains : server_connector_wake(t)
  \/ \E t \in Chains, ok \in BOOLEAN : server_connection(t, ok)
  \/ \E t \in Chains : server_connector_finish(t)
  \/ \E r \in Results : client_transfer(r)
  \/ \E r \in Results, f \in Senders \cup {"none"}, a \in BOOLEAN :
       server_transfer(r, f, a)

SpecDestroyed == InitDestroyed /\ [][NextDestroyed]_vars

\* ================================ claims ================================
\* the value connect() would return if it were called in the current state
connect_result == IF role = "client" THEN client_connect_result
                                     ELSE server_connect_result

\* C1: while an earlier connect chain has not ended (handed to a background
\* task that has not started, executing, or in its backoff sleep) connect()
\* returns false.
C1_ConnectRejectedWhileChainAlive == AliveCount > 0 => ~connect_result

\* C2: at most one connect attempt chain exists per session at any time.
C2_AtMostOneChain == AliveCount <= 1

\* C3: disconnect() called on a session that never was connected, or a second
\* time right after a first call, completes without fault and leaves
\* is_connected() false; the second call leaves the session as the first did.
C3_DisconnectIdempotent ==
  [][/\ (after_disconnect' /\ ~was_connected) => (~crashed' /\ ~connected_')
     /\ (after_disconnect' /\ after_disconnect) =>
           (~crashed' /\ ~connected_' /\ UNCHANGED pvars)]_vars

\* C4: when ::recv or ::send gives 0 the transfer call ends at once (no
\* retry), the caller gets 0, and disconnect() has run: is_connected() is
\* false as soon as the result can be read.
C4_ZeroResultTearsDown ==
  [][(xfer.pc = "run" /\ xfer'.pc # "idle" /\ xfer'.got = <<0>>)
       => (xfer'.pc = "done" /\ xfer'.result = 0 /\ ~connected_')]_vars

\* C5: whenever is_connected() is true the send and receive termination flags
\* are already lowered and connecting is cleared.
C5_ConnectedMeansReady ==
  connected_ => (~terminate_send_ /\ ~terminate_receive_ /\ ~connecting_)

\* a failed attempt that counts current_intent_ above max_intents_
Exhausts == current_intent_' # current_intent_ /\ current_intent_' > max_intents_

\* C6: when the retry counter exceeds max intents the chain ends and the
\* session is Idle (not connected, not connecting), so that a following
\* connect() is accepted.
C6_ExhaustionLeavesIdle ==
  [][Exhausts => (AliveCount' < AliveCount /\ ~connected_' /\ ~connecting_'
                  /\ connect_result')]_vars

\* program points at which a chain returns without reporting an error and
\* without having connected: on waking, on starting over, before accept()
SilentPoints == {"sleep", "spawned", "respawned", "accept_check"}

\* C7: a chain that disconnect() has not cancelled ends either with the
\* session Connected or with a permanent failure that it reports: it never
\* returns silently while the session is not connected.
C7_ChainEndsConnectedOrFailed ==
  [][\A c \in Chains :
       (c.cancel = "no" /\ c.pc \in SilentPoints /\ task' = Finish(c))
         => connected_']_vars

\* C8: with no disconnect and every attempt failing on all candidates a chain
\* makes exactly max_intents_ + 1 attempts and sleeps exactly max_intents_
\* times before it ends: it ends on the failed attempt number
\* max_intents_ + 1 and never on waking from a backoff sleep.
C8_AttemptsAndSleeps ==
  [][\A c \in Chains : (c.cancel = "no" /\ task' = Finish(c)) =>
        /\ (c.pc = "attempt" /\ Exhausts) =>
              (c.tries + 1 = max_intents_ + 1 /\ c.naps = max_intents_)
        /\ c.pc # "sleep"]_vars

\* C9: a chain that was in its backoff sleep when disconnect() was called
\* makes no further step after it wakes: it is asleep or gone.
C9_CancelledSleeperStops ==
  \A c \in Chains : c.cancel = "asleep" => c.pc = "sleep"

\* C10: an accepted connect() or reconnect() leaves the connect-termination
\* flag lowered for the chain it starts.
C10_AcceptedChainStartsLowered ==
  [][AliveCount' > AliveCount => ~terminate_concurrent_']_vars

\* a call of reconnect(), and the value it returns
reconnect_call ==
  \/ \E c \in BOOLEAN : client_reconnect(c)
  \/ \E a \in BOOLEAN : server_reconnect(a)
reconnect_result ==
  IF role = "client" THEN client_reconnect_result ELSE server_reconnect_result
\* an accepted call of connect()
connect_call ==
  \/ \E tg \in Targets, c \in BOOLEAN : client_connect(tg[1], tg[2], tg[3], c)
  \/ \E tg \in Targets, a \in BOOLEAN : server_connect(tg[1], tg[2], tg[3], a)

\* C11: reconnect() returns false and starts nothing when no IP was recorded
\* or the recorded port is not positive; otherwise the chain it starts finds
\* the address, port and transport kind that the most recent accepted
\* connect() recorded (only connect() writes them) and the retry counter at 0.
C11_ReconnectUsesRecordedTarget ==
  [][/\ reconnect_call =>
          /\ (ip_ = "" \/ port_ <= 0) => (~reconnect_result /\ UNCHANGED pvars)
          /\ AliveCount' > AliveCount =>
                (reconnect_result /\ UNCHANGED targetVars /\ current_intent_' = 0)
     /\ targetVars' # targetVars => (connect_call /\ connect_result)]_vars
\* a server whose reconnect() has just started a chain for a recorded target
\* (connect() lowers terminate_concurrent_, disconnect() marks the chains)
C11_Witness ==
  /\ role = "server" /\ NewChain \in Chains /\ terminate_concurrent_
  /\ connecting_ /\ current_intent_ = 0 /\ ip_ # "" /\ port_ > 0

\* C12: client::reconnect called while a connect attempt chain is in flight
\* returns true, starts no second chain and changes no session state.
C12_ReconnectInFlightIsNoOp ==
  [][(role = "client" /\ AliveCount > 0 /\ \E c \in BOOLEAN : client_reconnect(c))
       => (client_reconnect_result /\ UNCHANGED pvars)]_vars

\* C13: a synchronous connect or reconnect whose chain ends in permanent
\* failure (the retry counter exceeds max intents) returns to its caller a
\* value different from the one it returns when the chain ends Connected.
C13_InlineFailureIsReturned ==
  [][\A t \in Chains :
       (role = "client" /\ t.wait /\ task' = Finish(t) /\ Exhausts /\ ~connected_')
         => client_inline_result(FALSE) # client_inline_result(TRUE)]_vars

\* an attempt whose getaddrinfo() fails (the other inputs are not read then)
resolution_fails ==
  \/ \E t \in Chains : client_connector_attempt(t, FALSE, <<"ok">>, TRUE)
  \/ \E t \in Chains : server_connector_attempt(t, FALSE, <<"ok">>, TRUE, TRUE, FALSE)

\* C14: when address resolution fails the chain ends at once: no socket is
\* opened, the retry counter is not incremented, the chain does not sleep and
\* makes no further attempt.
C14_ResolutionFailureEndsChain ==
  [][resolution_fails =>
       /\ AliveCount' = AliveCount - 1
       /\ \E t \in Chains : t.pc = "attempt" /\ task' = Finish(t)
       /\ UNCHANGED <<socket_fd_, connected_fd_, openFds, current_intent_>>]_vars
\* a client whose first attempt could not resolve the address: the chain is
\* gone, nothing was opened or counted (connecting_ is still set)
C14_Witness ==
  /\ role = "client" /\ ip_ # "" /\ connecting_ /\ AliveCount = 0
  /\ current_intent_ = 0 /\ socket_fd_ = -1 /\ openFds = {} /\ ~was_connected

\* C15: in send_all / receive_all (and their concurrent forms) of N > 0
\* bytes every underlying call is asked for exactly the bytes still missing,
\* a positive result advances the cursor by exactly that count, the loop goes
\* on until N bytes are moved, and the call then gives exactly N.
C15_BulkMovesExactlyN ==
  [][(xfer.pc = "run" /\ xfer.all /\ xfer'.pc # "idle"
        /\ xfer'.calls = xfer.calls + 1 /\ xfer'.got[1] > 0)
       => /\ Asked(xfer) = xfer.size - xfer.total
          /\ xfer'.total = xfer.total + xfer'.got[1]
          /\ xfer'.left = xfer.size - xfer'.total
          /\ IF xfer'.total < xfer.size
             THEN xfer'.pc = "run"
             ELSE /\ xfer'.pc = "done" /\ xfer'.end = "full"
                  /\ xfer'.result = xfer.size /\ xfer'.total = xfer.size]_vars
\* a bulk transfer of 2 bytes done in two underlying calls of 1 byte each
C15_Witness ==
  /\ xfer.pc = "done" /\ xfer.all /\ xfer.end = "full" /\ xfer.errs = 0
  /\ xfer.size = MaxSize /\ xfer.calls = 2 /\ xfer.result = xfer.size

\* C16: in a bulk transfer the error counter starts at 0 for each call; a
\* negative underlying result increments it and leaves the cursor and the
\* remaining range as they were; the loop retries while the counter is at most
\* max intents and ends with the error indicator exactly when the counter
\* first exceeds it: send_all / receive_all return a negative value (the
\* concurrent forms store -1 in the server and 0 in the client).
C16_BulkErrorCounter ==
  [][/\ (xfer.pc = "idle" /\ xfer'.pc = "run")
         => (xfer'.errs = 0 /\ xfer'.total = 0 /\ xfer'.left = xfer'.size)
     /\ (xfer.pc = "run" /\ xfer.all /\ xfer'.pc # "idle"
           /\ xfer'.calls = xfer.calls + 1 /\ xfer'.got[1] < 0)
         => /\ xfer'.errs = xfer.errs + 1
            /\ xfer'.total = xfer.total /\ xfer'.left = xfer.left
            /\ IF xfer'.errs <= max_intents_
               THEN xfer'.pc = "run"
               ELSE /\ xfer'.pc = "done" /\ xfer'.end = "error"
                    /\ xfer'.errs = max_intents_ + 1
                    /\ IF ~xfer.conc THEN xfer'.result < 0
                       ELSE xfer'.result = IF role = "server" THEN -1 ELSE 0
     /\ (xfer.pc = "run" /\ xfer.all /\ xfer'.pc = "done" /\ xfer'.end = "error")
         => (xfer'.got[1] < 0 /\ xfer'.errs = max_intents_ + 1)]_vars
\* a receive_all / send_all that moved one byte, then failed max intents + 1
\* times and returned the error
C16_Witness ==
  /\ xfer.pc = "done" /\ xfer.all /\ ~xfer.conc /\ xfer.end = "error"
  /\ max_intents_ = MaxIntents /\ xfer.errs = MaxIntents + 1
  /\ xfer.total = 1 /\ xfer.result < 0

\* the session's own termination flag for the direction of the transfer
direction_flag ==
  IF xfer.dir = "receive" THEN terminate_receive_ ELSE terminate_send_

\* C17: a bulk transfer (send_all, receive_all and their concurrent forms)
\* whose loop check finds the caller's breaker or the session's termination
\* flag for its direction raised makes no further underlying call and gives
\* the bytes moved so far.
C17_BulkStopsOnEitherFlag ==
  [][(xfer.pc = "run" /\ xfer.all /\ xfer'.pc # "idle" /\ xfer' # xfer
        /\ xfer'.breaker = xfer.breaker /\ (xfer.breaker \/ direction_flag))
       => (xfer'.pc = "done" /\ xfer'.end = "stop" /\ xfer'.calls = xfer.calls
           /\ xfer'.result = xfer.total)]_vars

\* C18: send and receive (and their concurrent forms) on a connected session
\* with size > 0 make exactly one underlying call and give its raw result,
\* positive, 0 or negative, without retry.
C18_SingleFormsCallOnce ==
  [][(xfer.pc = "run" /\ ~xfer.all /\ xfer'.pc # "idle"
        /\ xfer'.calls = xfer.calls + 1)
       => (xfer'.pc = "done" /\ xfer'.calls = 1
           /\ xfer'.result = xfer'.got[1])]_vars

\* C19: send_all, receive_all, send and receive called with size 0 return 0
\* without an underlying call and without changing the session, connected or
\* not (the concurrent forms likewise leave 0 in the size location).
C19_SizeZeroIsNoOp ==
  [][(xfer.pc = "idle" /\ xfer'.pc # "idle" /\ xfer'.size = 0)
       => (xfer'.pc = "done" /\ xfer'.result = 0 /\ xfer'.calls = 0
           /\ UNCHANGED pvars)]_vars
\* a connected session has answered a synchronous call of size 0
C19_Witness ==
  /\ xfer.pc = "done" /\ xfer.size = 0 /\ ~xfer.conc /\ connected_
  /\ xfer.result = 0 /\ xfer.calls = 0 /\ xfer.end = "refused"

\* C20: each concurrent form (send_concurrently, send_all_concurrently,
\* receive_concurrently, receive_all_concurrently) called while the session is
\* not connected returns false at once, starts no background loop and changes
\* nothing but the caller's size location, which it sets to 0.
C20_ConcurrentRefusedUnconnected ==
  [][(xfer.pc = "idle" /\ xfer'.pc # "idle" /\ xfer'.conc /\ ~connected_)
       => (xfer'.pc = "done" /\ ~xfer'.started /\ xfer'.result = 0
           /\ xfer'.calls = 0 /\ UNCHANGED pvars)]_vars
\* a session that never was connected has refused a concurrent transfer of
\* a positive size
C20_Witness ==
  /\ xfer.pc = "done" /\ xfer.conc /\ xfer.size > 0 /\ ~was_connected
  /\ ~xfer.started /\ xfer.result = 0 /\ xfer.calls = 0

\* the record after one turn of the loop of this session's role
turn(x, r) == IF role = "client" THEN client_turn(x, r) ELSE server_turn(x, r)

\* C21: for the same underlying results and no cancellation, what a
\* concurrent transfer form leaves in the caller's size location equals what
\* its synchronous counterpart returns (full count, partial count, 0 on peer
\* close, error indicator on exhausted retries).
C21_ConcurrentEqualsSynchronous ==
  [][(xfer.pc = "run" /\ xfer.conc /\ xfer'.pc = "done" /\ xfer'.end # "stop")
       => xfer'.result =
            turn([xfer EXCEPT !.conc = FALSE], xfer'.got[1]).result]_vars

\* C22: a datagram server session becomes Connected only after its
\* handshake receive delivered exactly the identifier payload; if the first
\* payload differs the session ends not connected and records no peer.
C22_HandshakeNeedsIdentifier ==
  hs.pc = "done" =>
    IF hs.n = IdLen /\ hs.good
    THEN connected_ /\ hs.peer = hs.from
    ELSE ~connected_ /\ hs.peer = "none"

\* C23: once a datagram server session is Connected, a datagram whose sender
\* is not the recorded peer is discarded: receive / receive_all do not count
\* its bytes, do not advance the cursor, do not touch the error counter (and
\* do not return it as data).
C23_StrangerDatagramDiscarded ==
  [][(role = "server" /\ xfer.pc = "run" /\ xfer'.pc # "idle"
        /\ xfer'.calls = xfer.calls + 1 /\ xfer'.from = "stranger")
       => (xfer'.pc = "run" /\ xfer'.total = xfer.total
           /\ xfer'.left = xfer.left /\ xfer'.errs = xfer.errs)]_vars

\* the program points of a client chain after its attempt has succeeded
OpenedPoints == {"set_connected", "clear_connecting", "lower_send",
                 "lower_receive", "raise_concurrent"}

C25_ListenerClosedOnceConnected ==
  (role = "server" /\ is_tcp_ /\ connected_ /\ ~crashed)
    => (connected_fd_ \in openFds /\ socket_fd_ \notin openFds)

\* a socket handle of the session is still held
handle_held == socket_fd_ \in openFds \/ connected_fd_ \in openFds

\* C26: within one disconnect call the three termination flags are raised
\* first, then every held socket handle is released, and only then is the
\* connected flag cleared: it is never cleared while a handle is still held.
C26_DisconnectOrder ==
  [][/\ openFds' # openFds =>
          (terminate_send_ /\ terminate_receive_ /\ terminate_concurrent_)
     /\ (connected_ /\ ~connected_') =>
          (terminate_send_ /\ terminate_receive_ /\ terminate_concurrent_
           /\ ~handle_held)]_vars

\* C28: client::disconnect returns false when the connection cannot be
\* closed (the ::close of the socket fails) and true when the socket was
\* closed or was already closed.
C28_DisconnectReportsCloseFailure ==
  (role = "client" /\ dis.pc = "return") => (disconnect_result = ~dis.close_err)

\* C27: the recorded IP, port, transport kind and retry counter are never
\* written by connect() or reconnect() while a connect attempt chain is still
\* in flight (running or sleeping in backoff), whatever disconnect() did
\* in between.
C27_NoWriteWhileChainInFlight ==
  [][(AliveCount > 0 /\ (connect_call \/ reconnect_call))
       => UNCHANGED <<targetVars, current_intent_>>]_vars

\* C29: in the blocking client, connect(ip, port, kind, timeout, k) with
\* every attempt failing (no candidate connects) makes exactly k attempts for
\* k >= 1 and none for k <= 0, returns reached_max_intents and leaves the
\* session neither connected nor connecting; it returns no_error only when
\* the session is Connected.
C29_BlockingConnectCountsIntents ==
  blk.pc = "returned" =>
    /\ (blk.only_none /\ ~blk.kept) =>
          /\ blk.attempts = (IF blk.asked >= 1 THEN blk.asked ELSE 0)
          /\ blk.ret = "reached_max_intents"
          /\ ~connected_ /\ ~connecting_
    /\ blk.ret = "no_error" => connected_

\* C30: a freshly constructed client or server is Idle (not connected, not
\* connecting, no socket handle held) with backlog 10, backoff interval
\* 5000 ms and max reconnection intents 10, and each of the three settings
\* changes only in a step of its setter.
C30_FreshDefaultsSettersOnly ==
  /\ ~connected_ /\ ~connecting_
  /\ socket_fd_ = -1 /\ connected_fd_ = -1 /\ openFds = {}
  /\ max_queue_ = 10 /\ reconnection_time_ = 5000 /\ max_intents_ = 10
  /\ [][/\ max_queue_' # max_queue_ => \E n \in QueueValues : max_queue(n)
        /\ reconnection_time_' # reconnection_time_
             => \E n \in TimeValues : time_to_reconnect(n)
        /\ max_intents_' # max_intents_
             => \E n \in IntentValues : max_reconnection_intents(n)]_vars
\* every setting has been changed by its setter in a session that has been
\* connected and has retried
C30_Witness ==
  /\ max_queue_ = 1 /\ reconnection_time_ = 1000 /\ max_intents_ = 1
  /\ was_connected /\ current_intent_ > 0

\* C31: once disconnect() has returned and no connect() / reconnect() has
\* been called since, is_connected() stays false: a chain whose blocking
\* connect / accept / handshake completes after the disconnect does not mark
\* the session Connected.  (With one chain in flight, a chain marked
\* cancelled is one that was in flight when disconnect() returned, and no
\* accepted connect() or reconnect() has followed: each starts a chain.)
C31_DisconnectedStaysDisconnected ==
  [][((\E t \in Chains : t.cancel # "no") /\ AliveCount = 1 /\ ~connected_)
       => ~connected_']_vars

\* the handle the session's transfers use: the accepted descriptor of a
\* stream server, the socket otherwise
session_handle == IF role = "server" /\ is_tcp_ THEN connected_fd_ ELSE socket_fd_

\* C32: in every reachable state is_connected() true implies that the session
\* handle refers to an open socket (handle >= 0 and not yet closed);
\* disconnect never exposes a state where the handle is already closed or
\* reset to -1 while the connected flag is still true.
C32_ConnectedHandleIsOpen ==
  (connected_ /\ ~crashed) => (session_handle >= 0 /\ session_handle \in openFds)

\* C33: a background bulk transfer started on one session never makes an
\* underlying call on the socket of a later session: once disconnect() has
\* been called it stops at its next loop check, even if a reconnect succeeds
\* and lowers the termination flags before that check.  (In SpecStale the
\* transfer in its loop is the one that disconnect() overtook.)
C33_StaleTransferMakesNoCall ==
  [][xfer.pc = "run" => xfer'.calls = xfer.calls]_vars

\* C34: the connecting flag is true only while an attempt chain is in
\* flight: whenever a chain ends early (resolution failure, socket-option
\* failure, listen failure, signal-handler setup failure, session found
\* already connected) connecting is false afterwards, so that later connect()
\* calls are not rejected for ever.
C34_ConnectingOnlyWhileChainInFlight ==
  (connecting_ /\ ~crashed) => AliveCount > 0

\* what a disconnect() called now would release a second time: close()
\* passes socket_fd_ (close_child() connected_fd_) to ::shutdown and ::close
\* whenever it is >= 0, and server::disconnect frees results_ whenever it
\* is not null
closes_again == \/ socket_fd_ >= 0 /\ socket_fd_ \notin openFds
                \/ role = "server" /\ connected_fd_ >= 0 /\ connected_fd_ \notin openFds
frees_again  == role = "server" /\ server_double_free

\* C35: every resource a session obtains is released at most once: a socket
\* descriptor already closed by a failed candidate attempt or by an earlier
\* disconnect is never passed to shutdown / close again, and a resolver
\* result list already freed is never freed again by a later disconnect.
C35_ReleasedAtMostOnce ==
  [][after_disconnect' => (~closes_again /\ ~frees_again)]_vars

\* the descriptors the process holds open that no handle field names
leaked == openFds \ {socket_fd_, connected_fd_}

\* C36: no socket is leaked: after a connect chain has ended without
\* success, and after any disconnect with no chain in flight, every
\* descriptor the session opened has been closed; the session's handle
\* field is never overwritten with a new descriptor while the old one is
\* still open.
C36_NoSocketLeaked ==
  [][/\ (AliveCount = 1 /\ AliveCount' = 0 /\ ~connected_') => openFds' = {}
     /\ (after_disconnect' /\ AliveCount' = 0) => openFds' = {}
     /\ leaked' \subseteq leaked]_vars

\* C37: after the owning client / server object has been destroyed (its
\* destructor ran disconnect), no background task it spawned (connector,
\* accept loop, transfer) reads or writes the session's flags, counters or
\* handles again.  (Every step of a chain or of a transfer evaluates or
\* assigns members of the session; SpecDestroyed starts when the destructor
\* has returned.)
C37_TasksStopAtDestruction ==
  [][UNCHANGED <<pvars, xfer>>]_vars

\* C38: while a datagram server session is Connected, the recorded peer
\* address used as the destination of send / send_all is the address learned
\* in the handshake and is not changed by any receive, receive_all or their
\* concurrent forms.
C38_PeerKeptWhileConnected ==
  [][(connected_ /\ connected_') => hs'.peer = hs.peer]_vars

\* C39: server::disconnect on a stream server releases the accepted
\* per-session handle before it releases the listening handle: when the
\* listening handle is released the per-session handle is held no more.
C39_SessionHandleReleasedFirst ==
  [][(role = "server" /\ is_tcp_
      /\ socket_fd_ \in openFds /\ socket_fd_ \notin openFds')
       => connected_fd_ \notin openFds]_vars

\* C40: max_queue(n) returns false and leaves the stored backlog unchanged
\* when n is negative, and time_to_reconnect(ms) with a non-positive ms
\* leaves the backoff interval unchanged; any accepted value is exactly what
\* the matching getter returns afterwards.
C40_SettersRejectAndStore ==
  [][/\ \A n \in QueueValues : max_queue(n) =>
          /\ n < 0 => (~max_queue_result(n) /\ max_queue_' = max_queue_)
          /\ max_queue_result(n) => max_queue_get' = n
     /\ \A ms \in TimeValues : time_to_reconnect(ms) =>
          /\ ms <= 0 => reconnection_time_' = reconnection_time_
          /\ ms > 0 => time_to_reconnect_get' = ms]_vars
\* the getters return values that the setters accepted after others had
\* been stored
C40_Witness ==
  /\ max_queue_get = 1 /\ time_to_reconnect_get = 1000
  /\ max_intents_ = constructed(role).max_intents_

====
